---- MODULE Spec2Model ----
(***************************************************************************)
(* Model of the Meraki policy-object / L3-rule provisioning script:        *)
(*   src/src/main.py        translate_cidr_to_objects, combine_lists, main *)
(*   src/src/meraki_api.py  MERAKI_API (name -> id indexes, SDK wrappers)  *)
(*                                                                         *)
(* A Python str is a sequence of ASCII codes, so that str.lower() and the  *)
(* f-string formatting of OBJ(..)/GRP(..) are computed, not assumed.       *)
(* A Python dict is a function (record) over its keys.                     *)
(***************************************************************************)
EXTENDS Integers, Sequences, FiniteSets, TLC

VARIABLES
    existing_rules,   \* combine_lists: argument existing_rules
    new_rules,        \* combine_lists: argument new_rules
    combined_list,    \* combine_lists: returned list
    combined_refs,    \* combine_lists: which argument dict each returned entry is
    cidr,             \* translate_cidr_to_objects: argument cidr
    cidr_out,         \* translate_cidr_to_objects: returned string
    unit_pc,          \* position of the pure-function harness
    policy_objects_name_to_id,        \* MERAKI_API._policy_objects_name_to_id
    policy_group_objects_name_to_id,  \* MERAKI_API._policy_group_objects_name_to_id
    catalog,          \* the two mappings as MERAKI_API.__init__ built them
    next_id,          \* the dashboard's next fresh identifier
    pc,               \* position in main()
    csv_objects,      \* policy_objects.csv as read
    policy_objects,   \* main: policy_objects (rows are modified in place)
    row_i,            \* main: position of `for policy_object in policy_objects`
    csv_rules,        \* l3_outbound_rules.csv as read
    l3_rules,         \* main: l3_rules
    l3_rules_translated, \* l3_rules when the translation loop finished
    response,         \* main: response of get_org_appliance_networks
    overwrite,        \* main: overwrite
    net_i,            \* main: position of `for network in response`
    calls             \* the dashboard SDK calls issued so far, in order

unit_vars == <<existing_rules, new_rules, combined_list, combined_refs, cidr, cidr_out, unit_pc>>
index_vars == <<policy_objects_name_to_id, policy_group_objects_name_to_id>>
main_vars == <<catalog, next_id, pc, csv_objects, policy_objects, row_i, csv_rules, l3_rules,
               l3_rules_translated, response, overwrite, net_i, calls>>

vars == <<unit_vars, index_vars, main_vars>>

----------------------------------------------------------------------------
(* Strings                                                                 *)

s_empty == <<>>
s_allow == <<97, 108, 108, 111, 119>>
s_Allow == <<65, 108, 108, 111, 119>>
s_deny  == <<100, 101, 110, 121>>
s_any   == <<97, 110, 121>>
s_Any   == <<65, 110, 121>>
s_tcp   == <<116, 99, 112>>
s_TCP   == <<84, 67, 80>>
s_443   == <<52, 52, 51>>
s_net10 == <<49, 48, 47, 56>>
s_net192 == <<49, 57, 50, 47, 49, 54>>
s_old   == <<111, 108, 100>>
s_web   == <<119, 101, 98>>
s_db    == <<100, 98>>
s_grp   == <<103, 114, 112>>
s_err   == <<52, 48, 52>>
s_id100 == <<49, 48, 48>>
s_id101 == <<49, 48, 49>>
s_NetworkObjectGroup ==
    <<78, 101, 116, 119, 111, 114, 107, 79, 98, 106, 101, 99, 116, 71, 114, 111, 117, 112>>

\* str(n) for a natural number n
RECURSIVE str(_)
str(n) == IF n < 10 THEN <<48 + n>> ELSE str(n \div 10) \o <<48 + (n % 10)>>

lower_char_identity(ch) == ch

\* str.lower() on one ASCII character: 'A'..'Z' -> 'a'..'z'
lower_char(ch) == IF ch >= 65 /\ ch =< 90 THEN ch + 32 ELSE ch

\* str.lower()
lower(s) == [k \in 1..Len(s) |-> lower_char(s[k])]

----------------------------------------------------------------------------
(* combine_lists                                                           *)

key_fields == <<"policy", "protocol", "srcCidr", "destCidr", "srcPort", "destPort">>

\* key_extractor: tuple(dic[key].lower() for key in key_fields)
key_extractor(dic) == [k \in 1..Len(key_fields) |-> lower(dic[key_fields[k]])]

\* ('allow', 'any', 'any', 'any', 'any', 'any')
default_rule_key == <<s_allow, s_any, s_any, s_any, s_any, s_any>>

\* The lists of combine_lists hold references to the dicts of its two
\* arguments: <<"existing", i>> is existing_rules[i], <<"new", j>> is
\* new_rules[j].  The loop state is [combined_list, seen].
existing_step_keep_default(st, ref, rule) ==
    [combined_list |-> Append(st.combined_list, ref),
     seen |-> st.seen \cup {key_extractor(rule)}]

existing_step_dedup(st, ref, rule) ==
    LET key_tuple == key_extractor(rule)
    IN  IF key_tuple = default_rule_key \/ key_tuple \in st.seen
        THEN st
        ELSE [combined_list |-> Append(st.combined_list, ref),
              seen |-> st.seen \cup {key_tuple}]

\* body of `for rule in existing_rules`
existing_step(st, ref, rule) ==
    LET key_tuple == key_extractor(rule)
    IN  IF key_tuple = default_rule_key
        THEN st
        ELSE [combined_list |-> Append(st.combined_list, ref),
              seen |-> st.seen \cup {key_tuple}]

new_step_prepend(st, ref, rule) ==
    LET key_tuple == key_extractor(rule)
    IN  IF key_tuple \notin st.seen
        THEN [combined_list |-> <<ref>> \o st.combined_list,
              seen |-> st.seen \cup {key_tuple}]
        ELSE st

\* body of `for rule in new_rules`
new_step(st, ref, rule) ==
    LET key_tuple == key_extractor(rule)
    IN  IF key_tuple \notin st.seen
        THEN [combined_list |-> Append(st.combined_list, ref),
              seen |-> st.seen \cup {key_tuple}]
        ELSE st

RECURSIVE for_existing(_, _, _)
for_existing(existing, i, st) ==
    IF i > Len(existing) THEN st
    ELSE for_existing(existing, i + 1, existing_step(st, <<"existing", i>>, existing[i]))

RECURSIVE for_new(_, _, _)
for_new(new, j, st) ==
    IF j > Len(new) THEN st
    ELSE for_new(new, j + 1, new_step(st, <<"new", j>>, new[j]))

\* The references in the returned list, in order.
combine_refs(existing, new) ==
    for_new(new, 1,
            for_existing(existing, 1, [combined_list |-> <<>>, seen |-> {}])
           ).combined_list

deref(existing, new, ref) ==
    IF ref[1] = "existing" THEN existing[ref[2]] ELSE new[ref[2]]

\* combine_lists(existing_rules, new_rules)
combine_lists(existing, new) ==
    LET refs == combine_refs(existing, new)
    IN  [k \in 1..Len(refs) |-> deref(existing, new, refs[k])]

----------------------------------------------------------------------------
(* translate_cidr_to_objects                                               *)

s_OBJ_open == <<79, 66, 74, 40>>
s_GRP_open == <<71, 82, 80, 40>>
s_close    == <<41>>

translate_groups_first(objects, groups, c) ==
    IF c \in DOMAIN groups THEN s_GRP_open \o groups[c] \o s_close
    ELSE IF c \in DOMAIN objects THEN s_OBJ_open \o objects[c] \o s_close
    ELSE c

\* translate_cidr_to_objects(cidr), reading the two mappings of meraki_api
translate_cidr_to_objects(objects, groups, c) ==
    IF c \in DOMAIN objects THEN s_OBJ_open \o objects[c] \o s_close
    ELSE IF c \in DOMAIN groups THEN s_GRP_open \o groups[c] \o s_close
    ELSE c

translate_rules_src_only(objects, groups, rules) ==
    [k \in 1..Len(rules) |->
        [rules[k] EXCEPT
            !.srcCidr = translate_cidr_to_objects(objects, groups, rules[k].srcCidr)]]

\* for rule in l3_rules: rule['srcCidr'] = ...; rule['destCidr'] = ...
translate_rules(objects, groups, rules) ==
    [k \in 1..Len(rules) |->
        [rules[k] EXCEPT
            !.srcCidr = translate_cidr_to_objects(objects, groups, rules[k].srcCidr),
            !.destCidr = translate_cidr_to_objects(objects, groups, rules[k].destCidr)]]

----------------------------------------------------------------------------
(* MERAKI_API: the dicts and the SDK wrappers                              *)

\* dict[key] = value
dict_set(d, key, value) == [k \in DOMAIN d \cup {key} |-> IF k = key THEN value ELSE d[k]]

\* del dict[key]
dict_del(d, key) == [k \in DOMAIN d \ {key} |-> d[k]]

EmptyDict == [k \in {} |-> <<>>]

\* One SDK call and its outcome.
Call(op, row, arg, ok, result) == [op |-> op, row |-> row, arg |-> arg, ok |-> ok, result |-> result]

create_register_reset(mapping, config, ok, id) ==
    IF ok THEN dict_set(EmptyDict, config["name"], id) ELSE mapping

create_register_on_failure(mapping, config, ok, id) == dict_set(mapping, config["name"], id)

\* create_policy_objects / create_policy_object_groups: the mapping after the
\* call; on success mapping[config['name']] = response['id'], on an APIError
\* or any other exception the mapping is left as it was.
create_register(mapping, config, ok, id) ==
    IF ok THEN dict_set(mapping, config["name"], id) ELSE mapping

----------------------------------------------------------------------------
(* Inputs                                                                  *)

MaxRules == 2
MaxRows == 2
MaxNetworks == 2

Rule(policy, protocol, srcCidr, destCidr, srcPort, destPort, comment) ==
    [policy |-> policy, protocol |-> protocol, srcCidr |-> srcCidr,
     destCidr |-> destCidr, srcPort |-> srcPort, destPort |-> destPort,
     comment |-> comment]

rule_web      == Rule(s_allow, s_tcp, s_any, s_net10, s_any, s_443, s_empty)
rule_web_caps == Rule(s_Allow, s_TCP, s_any, s_net10, s_Any, s_443, s_old)
rule_deny     == Rule(s_deny, s_any, s_net192, s_any, s_any, s_any, s_empty)
rule_default  == Rule(s_allow, s_any, s_any, s_any, s_any, s_any, s_empty)
rule_default_caps == Rule(s_Allow, s_Any, s_Any, s_any, s_Any, s_any, s_old)
\* a rule whose source names a policy object and whose destination names a group
rule_named    == Rule(s_allow, s_tcp, s_web, s_grp, s_any, s_443, s_empty)

SeqsUpTo(S, n) == UNION {[1..m -> S] : m \in 0..n}

\* arguments of combine_lists
RuleUniverse == {rule_web, rule_web_caps, rule_deny, rule_default, rule_default_caps}
RuleLists == SeqsUpTo(RuleUniverse, MaxRules)

\* l3_outbound_rules.csv
RuleTables == SeqsUpTo({rule_named, rule_default}, MaxRules)

\* the rules of a network as the dashboard returns them: the configured rules,
\* then the default rule
FetchedLists == {<<rule_web, rule_default_caps>>, <<rule_deny, rule_default_caps>>}

\* the rules configured on the network at position n of the organization:
\* neighbouring networks hold different rules
remote_rules(n) ==
    IF n % 2 = 1 THEN <<rule_web, rule_default_caps>> ELSE <<rule_deny, rule_default_caps>>

\* policy_objects.csv: every row has the columns of the header
RowsNoGroupColumn == {[name |-> s_web, cidr |-> s_net10]}
RowsGroupColumn ==
    {dict_set([name |-> s_web, cidr |-> s_net10], "_group_name", s_grp),
     dict_set([name |-> s_db, cidr |-> s_net192], "_group_name", s_empty)}
ObjectTables == SeqsUpTo(RowsNoGroupColumn, MaxRows) \cup SeqsUpTo(RowsGroupColumn, MaxRows)

\* the organization's appliance networks
AllNetworks == [k \in 1..MaxNetworks |-> [id |-> <<78>> \o str(k), name |-> <<110>> \o str(k)]]
NetworkLists == {SubSeq(AllNetworks, 1, m) : m \in 0..MaxNetworks}

\* the policy objects and groups of the organization when the run starts
Catalogs ==
    {[objects |-> EmptyDict, groups |-> EmptyDict],
     [objects |-> dict_set(EmptyDict, s_db, s_id100),
      groups |-> dict_set(EmptyDict, s_grp, s_id101)]}

----------------------------------------------------------------------------
(* combine_lists and translate_cidr_to_objects called on their own         *)

UnitIdle ==
    /\ existing_rules = <<>>
    /\ new_rules = <<>>
    /\ combined_list = <<>>
    /\ combined_refs = <<>>
    /\ cidr = <<>>
    /\ cidr_out = <<>>
    /\ unit_pc = "idle"

MainIdle ==
    /\ catalog = [objects |-> EmptyDict, groups |-> EmptyDict]
    /\ next_id = 1
    /\ pc = "idle"
    /\ csv_objects = <<>>
    /\ policy_objects = <<>>
    /\ row_i = 1
    /\ csv_rules = <<>>
    /\ l3_rules = <<>>
    /\ l3_rules_translated = <<>>
    /\ response = <<"None", <<>>>>
    /\ overwrite = FALSE
    /\ net_i = 1
    /\ calls = <<>>

InitCombine ==
    /\ existing_rules \in RuleLists
    /\ new_rules \in RuleLists
    /\ combined_list = <<>>
    /\ combined_refs = <<>>
    /\ cidr = <<>>
    /\ cidr_out = <<>>
    /\ unit_pc = "call"
    /\ policy_objects_name_to_id = EmptyDict
    /\ policy_group_objects_name_to_id = EmptyDict
    /\ MainIdle

CallCombineLists ==
    /\ unit_pc = "call"
    /\ combined_list' = combine_lists(existing_rules, new_rules)
    /\ combined_refs' = combine_refs(existing_rules, new_rules)
    /\ unit_pc' = "returned"
    /\ UNCHANGED <<existing_rules, new_rules, cidr, cidr_out, index_vars, main_vars>>

NextCombine == CallCombineLists

SpecCombine == InitCombine /\ [][NextCombine]_vars

\* name -> id mappings over the given names and identifiers
Dicts(names, ids) == UNION {[d -> ids] : d \in SUBSET names}

CidrInputs == {s_web, s_grp, s_db, s_net10, s_any}
IndexNames == {s_web, s_grp, s_db}
IndexIds == {s_id100, s_id101}

InitTranslate ==
    /\ cidr \in CidrInputs
    /\ policy_objects_name_to_id \in Dicts(IndexNames, IndexIds)
    /\ policy_group_objects_name_to_id \in Dicts(IndexNames, IndexIds)
    /\ existing_rules = <<>>
    /\ new_rules = <<>>
    /\ combined_list = <<>>
    /\ combined_refs = <<>>
    /\ cidr_out = <<>>
    /\ unit_pc = "call"
    /\ MainIdle

CallTranslate ==
    /\ unit_pc = "call"
    /\ cidr_out' = translate_cidr_to_objects(policy_objects_name_to_id,
                                             policy_group_objects_name_to_id, cidr)
    /\ unit_pc' = "returned"
    /\ UNCHANGED <<existing_rules, new_rules, combined_list, combined_refs, cidr,
                   index_vars, main_vars>>

NextTranslate == CallTranslate

SpecTranslate == InitTranslate /\ [][NextTranslate]_vars

----------------------------------------------------------------------------
(* main()                                                                  *)

Init ==
    /\ UnitIdle
    /\ catalog \in Catalogs
    /\ policy_objects_name_to_id = catalog.objects
    /\ policy_group_objects_name_to_id = catalog.groups
    /\ next_id = 1
    /\ pc = "read_objects"
    /\ csv_objects = <<>>
    /\ policy_objects = <<>>
    /\ row_i = 1
    /\ csv_rules = <<>>
    /\ l3_rules = <<>>
    /\ l3_rules_translated = <<>>
    /\ response = <<"None", <<>>>>
    /\ overwrite = FALSE
    /\ net_i = 1
    /\ calls = <<>>

\* open('policy_objects.csv'): the rows, or FileNotFoundError -> print_error, return
ReadPolicyObjects ==
    /\ pc = "read_objects"
    /\ \E found \in BOOLEAN : \E table \in ObjectTables :
          IF found
          THEN /\ csv_objects' = table
               /\ policy_objects' = table
               /\ row_i' = 1
               /\ pc' = "step1"
          ELSE /\ pc' = "aborted"
               /\ UNCHANGED <<csv_objects, policy_objects, row_i>>
    /\ UNCHANGED <<unit_vars, index_vars, catalog, next_id, csv_rules, l3_rules,
                   l3_rules_translated, response, overwrite, net_i, calls>>

\* "_group_name" in policy_object and policy_object["_group_name"] != ''
has_group_name(policy_object) ==
    "_group_name" \in DOMAIN policy_object /\ policy_object["_group_name"] # s_empty

group_missing_always(groups, group_name) == TRUE

\* not policy_object["_group_name"] in meraki_api.policy_group_objects_name_to_id
group_missing(groups, group_name) == group_name \notin DOMAIN groups

\* del policy_object["_group_name"]; policy_object["groupIds"] = [id]
with_group_ids(policy_object, id) ==
    dict_set(dict_del(policy_object, "_group_name"), "groupIds", <<id>>)

next_row_break(i, n, failed) == IF failed THEN n + 1 ELSE i + 1

\* the position of the loop over the n rows after the body ran for row i,
\* whether it ended normally or (failed) by the `continue` after an error
next_row(i, n, failed) == i + 1

\* one pass of `for policy_object in policy_objects`
ProcessPolicyObject ==
    /\ pc = "step1"
    /\ row_i <= Len(policy_objects)
    /\ \E group_ok \in BOOLEAN, object_ok \in BOOLEAN :
        LET policy_object == policy_objects[row_i]
            grouped == has_group_name(policy_object)
            to_create == grouped /\ group_missing(policy_group_objects_name_to_id,
                                                 policy_object["_group_name"])
            group_payload == [name |-> policy_object["_group_name"],
                              category |-> s_NetworkObjectGroup]
            group_call == Call("createGroup", row_i, group_payload, group_ok,
                               IF group_ok THEN str(next_id) ELSE s_err)
            groups1 == IF to_create
                       THEN create_register(policy_group_objects_name_to_id,
                                            group_payload, group_ok, str(next_id))
                       ELSE policy_group_objects_name_to_id
            calls1 == IF to_create THEN Append(calls, group_call) ELSE calls
            next_id1 == IF to_create /\ group_ok THEN next_id + 1 ELSE next_id
            group_error == to_create /\ ~group_ok
            config == IF grouped
                      THEN with_group_ids(policy_object, groups1[policy_object["_group_name"]])
                      ELSE policy_object
            object_call == Call("createObject", row_i, config, object_ok,
                                IF object_ok THEN str(next_id1) ELSE s_err)
        IN  /\ policy_group_objects_name_to_id' = groups1
            /\ IF group_error
               THEN /\ calls' = calls1
                    /\ next_id' = next_id1
                    /\ UNCHANGED <<policy_objects, policy_objects_name_to_id>>
               ELSE /\ calls' = Append(calls1, object_call)
                    /\ next_id' = IF object_ok THEN next_id1 + 1 ELSE next_id1
                    /\ policy_objects' = [policy_objects EXCEPT ![row_i] = config]
                    /\ policy_objects_name_to_id' =
                           create_register(policy_objects_name_to_id, config, object_ok,
                                           str(next_id1))
            /\ row_i' = next_row(row_i, Len(policy_objects), group_error \/ ~object_ok)
    /\ UNCHANGED <<unit_vars, catalog, pc, csv_objects, csv_rules, l3_rules,
                   l3_rules_translated, response, overwrite, net_i>>

\* open('l3_outbound_rules.csv'): the rows, or FileNotFoundError -> print_error, return
ReadL3Rules ==
    /\ pc = "step1"
    /\ row_i > Len(policy_objects)
    /\ \E found \in BOOLEAN : \E table \in RuleTables :
          IF found
          THEN /\ csv_rules' = table
               /\ l3_rules' = table
               /\ pc' = "translate"
          ELSE /\ pc' = "aborted"
               /\ UNCHANGED <<csv_rules, l3_rules>>
    /\ UNCHANGED <<unit_vars, index_vars, catalog, next_id, csv_objects, policy_objects,
                   row_i, l3_rules_translated, response, overwrite, net_i, calls>>

\* for rule in l3_rules: translate srcCidr and destCidr
TranslateRules ==
    /\ pc = "translate"
    /\ l3_rules' = translate_rules(policy_objects_name_to_id,
                                   policy_group_objects_name_to_id, l3_rules)
    /\ l3_rules_translated' = l3_rules'
    /\ pc' = "get_networks"
    /\ UNCHANGED <<unit_vars, index_vars, catalog, next_id, csv_objects, policy_objects,
                   row_i, csv_rules, response, overwrite, net_i, calls>>

\* error, response = meraki_api.get_org_appliance_networks(): (None, list of
\* networks) or (status, str(e)); the pair is kept in response
GetNetworks ==
    /\ pc = "get_networks"
    /\ \E ok \in BOOLEAN : \E networks \in NetworkLists : \E message \in {s_empty, s_err} :
          /\ response' = IF ok THEN <<"None", networks>> ELSE <<"500", message>>
          /\ calls' = Append(calls, Call("listNetworks", 0, <<>>, ok, response'[2]))
    /\ pc' = "ask"
    /\ UNCHANGED <<unit_vars, index_vars, catalog, next_id, csv_objects, policy_objects,
                   row_i, csv_rules, l3_rules, l3_rules_translated, overwrite, net_i>>

\* overwrite = Confirm.ask(...)
AskOverwrite ==
    /\ pc = "ask"
    /\ overwrite' \in BOOLEAN
    /\ net_i' = 1
    /\ pc' = "step2"
    /\ UNCHANGED <<unit_vars, index_vars, catalog, next_id, csv_objects, policy_objects,
                   row_i, csv_rules, l3_rules, l3_rules_translated, response, calls>>

\* l3_rules = combine_lists(existing_rules, l3_rules)
rules_to_push(rules, existing) == combine_lists(existing, rules)

fetch_first_always(overwriting) == TRUE

\* if not overwrite: the existing rules are fetched and merged
fetch_first(overwriting) == ~overwriting

get_error_ignored(fetching, get_ok) == FALSE

\* if error: ... continue  (after get_l3_outbound_rules)
get_error_skips(fetching, get_ok) == fetching /\ ~get_ok

next_network_break(i, n, failed) == IF failed THEN n + 1 ELSE i + 1

\* the position of the loop over the n networks after the body ran for
\* network i, whether it ended normally or (failed) after an error
next_network(i, n, failed) == i + 1

\* one pass of `for network in response`
ProcessNetwork ==
    /\ pc = "step2"
    /\ net_i <= Len(response[2])
    /\ IF response[1] # "None"
       THEN \* response is str(e): network is one character, network['id'] raises TypeError
            /\ pc' = "crashed"
            /\ UNCHANGED <<l3_rules, net_i, calls>>
       ELSE \E get_ok \in BOOLEAN, set_ok \in BOOLEAN :
            \E fetched \in {f \in FetchedLists : f = remote_rules(net_i)} :
            LET network_id == response[2][net_i].id
                get_call == Call("getRules", net_i, network_id, get_ok,
                                 IF get_ok THEN fetched ELSE s_err)
                fetching == fetch_first(overwrite)
                calls1 == IF fetching THEN Append(calls, get_call) ELSE calls
                get_error == get_error_skips(fetching, get_ok)
                rules1 == IF fetching THEN rules_to_push(l3_rules, fetched)
                          ELSE l3_rules
                set_call == Call("setRules", net_i, [networkId |-> network_id, rules |-> rules1],
                                 set_ok, IF set_ok THEN rules1 ELSE s_err)
            IN  /\ IF get_error
                   THEN /\ calls' = calls1
                        /\ UNCHANGED l3_rules
                   ELSE /\ calls' = Append(calls1, set_call)
                        /\ l3_rules' = rules1
                /\ net_i' = next_network(net_i, Len(response[2]), get_error \/ ~set_ok)
                /\ pc' = pc
    /\ UNCHANGED <<unit_vars, index_vars, catalog, next_id, csv_objects, policy_objects,
                   row_i, csv_rules, l3_rules_translated, response, overwrite>>

\* the loop over the networks is exhausted: main() returns
Return ==
    /\ pc = "step2"
    /\ net_i > Len(response[2])
    /\ pc' = "returned"
    /\ UNCHANGED <<unit_vars, index_vars, catalog, next_id, csv_objects, policy_objects,
                   row_i, csv_rules, l3_rules, l3_rules_translated, response, overwrite,
                   net_i, calls>>

Next ==
    \/ ReadPolicyObjects
    \/ ProcessPolicyObject
    \/ ReadL3Rules
    \/ TranslateRules
    \/ GetNetworks
    \/ AskOverwrite
    \/ ProcessNetwork
    \/ Return

Spec == Init /\ [][Next]_vars

----------------------------------------------------------------------------
(* Properties of combine_lists (checked under SpecCombine)                 *)

Returned == unit_pc = "returned"

\* The identity of a rule: its six fields, letters compared without case.
FoldCase(text) == [k \in DOMAIN text |-> IF text[k] \in 97..122 THEN text[k] - 32 ELSE text[k]]

IdentityOf(rule) ==
    <<FoldCase(rule.policy), FoldCase(rule.protocol), FoldCase(rule.srcCidr),
      FoldCase(rule.destCidr), FoldCase(rule.srcPort), FoldCase(rule.destPort)>>

SameRule(r1, r2) == IdentityOf(r1) = IdentityOf(r2)

IsDefaultKey(rule) ==
    IdentityOf(rule) = <<FoldCase(s_allow), FoldCase(s_any), FoldCase(s_any),
                         FoldCase(s_any), FoldCase(s_any), FoldCase(s_any)>>

\* C3 as stated: merge(existing, incoming) contains no two rules whose six
\* identity fields are equal when compared case-insensitively.
C3_NoTwoEqualKeys ==
    Returned =>
        \A a, b \in DOMAIN combined_list :
            a < b => ~SameRule(combined_list[a], combined_list[b])

\* C3 amended: two rules of merge(existing, incoming) with case-insensitively
\* equal keys are both rules of existing; every rule taken from incoming has
\* a key no other rule of the result has, whatever the letter case or the
\* comment of the rules.
C3_EqualKeysOnlyAmongExisting ==
    Returned =>
        /\ Len(combined_refs) = Len(combined_list)
        /\ \A a, b \in DOMAIN combined_list :
               (a < b /\ SameRule(combined_list[a], combined_list[b]))
                   => (combined_refs[a][1] = "existing" /\ combined_refs[b][1] = "existing")

\* C3 witness: an incoming rule that differs from an existing rule in letter
\* case and comment only was dropped.
C3_Witness ==
    /\ Returned
    /\ \E i \in DOMAIN existing_rules : \E j \in DOMAIN new_rules :
          /\ existing_rules[i] # new_rules[j]
          /\ existing_rules[i].policy # new_rules[j].policy
          /\ SameRule(existing_rules[i], new_rules[j])
          /\ ~IsDefaultKey(existing_rules[i])
          /\ <<"existing", i>> \in {combined_refs[k] : k \in DOMAIN combined_refs}
          /\ <<"new", j>> \notin {combined_refs[k] : k \in DOMAIN combined_refs}

ExistingRefs(existing) == [i \in 1..Len(existing) |-> <<"existing", i>>]
NewRefs(new) == [j \in 1..Len(new) |-> <<"new", j>>]

KeptExistingKeys(existing) ==
    {IdentityOf(existing[i]) : i \in {n \in DOMAIN existing : ~IsDefaultKey(existing[n])}}

\* C6: merge(existing, incoming) is every rule of existing except the
\* default-allow-any rule, in original order, followed by exactly the rules of
\* incoming whose key is the key of no earlier emitted rule, in original
\* relative order; the existing rules are the same dicts, unmodified.
C6_ExistingThenNewInOrder ==
    Returned =>
        LET kept == SelectSeq(ExistingRefs(existing_rules),
                              LAMBDA r : ~IsDefaultKey(existing_rules[r[2]]))
            added == SelectSeq(NewRefs(new_rules),
                               LAMBDA r :
                                   /\ IdentityOf(new_rules[r[2]]) \notin KeptExistingKeys(existing_rules)
                                   /\ \A e \in 1..(r[2] - 1) :
                                          ~SameRule(new_rules[e], new_rules[r[2]]))
        IN  /\ combined_refs = kept \o added
            /\ combined_list = [k \in 1..Len(kept \o added) |->
                                   deref(existing_rules, new_rules, (kept \o added)[k])]

\* C6 witness: an existing rule was kept, an incoming duplicate of it was
\* dropped and a later incoming rule with a new key was appended.
C6_Witness ==
    /\ Returned
    /\ Len(new_rules) = 2
    /\ Len(existing_rules) = 2
    /\ combined_refs = <<<<"existing", 2>>, <<"new", 2>>>>
    /\ SameRule(new_rules[1], existing_rules[2])
    /\ new_rules[1] # existing_rules[2]

\* C7: a rule of existing whose six identity fields are (allow, any, any,
\* any, any, any) in any letter case is never an entry of
\* merge(existing, incoming).
C7_ExistingDefaultNeverKept ==
    Returned =>
        \A k \in DOMAIN combined_refs :
            combined_refs[k][1] = "existing" => ~IsDefaultKey(existing_rules[combined_refs[k][2]])

\* C7 witness: existing holds the default rule written in capitals next to
\* another rule, and the merge returned.
C7_Witness ==
    /\ Returned
    /\ \E i \in DOMAIN existing_rules :
          IsDefaultKey(existing_rules[i]) /\ existing_rules[i].policy = s_Allow
    /\ \E k \in DOMAIN combined_refs : combined_refs[k][1] = "existing"

----------------------------------------------------------------------------
(* Properties of translate_cidr_to_objects (checked under SpecTranslate)   *)

\* C5: translate(s) is OBJ(<id of object s>) if s is an object name (also
\* when s is a group name as well), otherwise GRP(<id of group s>) if s is a
\* group name, otherwise s unchanged; the call leaves both mappings as they
\* were.
C5_TranslateByObjectThenGroup ==
    /\ [](Returned =>
            /\ cidr \in DOMAIN policy_objects_name_to_id =>
                   cidr_out = <<79, 66, 74, 40>> \o policy_objects_name_to_id[cidr] \o <<41>>
            /\ (cidr \notin DOMAIN policy_objects_name_to_id
                /\ cidr \in DOMAIN policy_group_objects_name_to_id) =>
                   cidr_out = <<71, 82, 80, 40>> \o policy_group_objects_name_to_id[cidr] \o <<41>>
            /\ (cidr \notin DOMAIN policy_objects_name_to_id
                /\ cidr \notin DOMAIN policy_group_objects_name_to_id) =>
                   cidr_out = cidr)
    /\ [][UNCHANGED index_vars]_vars

\* C5 witness: the name is an object name and a group name with different
\* identifiers, and the object's token was returned.
C5_Witness ==
    /\ Returned
    /\ cidr \in DOMAIN policy_objects_name_to_id
    /\ cidr \in DOMAIN policy_group_objects_name_to_id
    /\ policy_objects_name_to_id[cidr] # policy_group_objects_name_to_id[cidr]
    /\ cidr_out = s_OBJ_open \o policy_objects_name_to_id[cidr] \o s_close

----------------------------------------------------------------------------
(* Properties of main() (checked under Spec)                               *)

CallsWhere(op) == {k \in DOMAIN calls : calls[k].op = op}

RuleSetOf(rules) == {rules[k] : k \in DOMAIN rules}

\* C1: in merge mode the rule set passed to setRules for a network is
\* merge(that network's fetched rules, the translated rule table), and holds
\* no rule that is in neither of the two.
C1_PushedIsMergeOfFetchedAndTable ==
    ~overwrite =>
        \A k \in CallsWhere("setRules") :
            \E g \in CallsWhere("getRules") :
                /\ g < k
                /\ calls[g].row = calls[k].row
                /\ calls[g].ok
                /\ calls[k].arg.rules = combine_lists(calls[g].result, l3_rules_translated)
                /\ RuleSetOf(calls[k].arg.rules) \subseteq
                       RuleSetOf(calls[g].result) \cup RuleSetOf(l3_rules_translated)

IsMutation(call) == call.op \in {"createObject", "createGroup", "setRules"}

\* C2: when an input table is missing the run aborts and no createObject,
\* createGroup or setRules has been issued before the abort.
C2_NoMutationBeforeAbort ==
    pc = "aborted" => \A k \in DOMAIN calls : ~IsMutation(calls[k])

\* C4: once both input tables have been read, no failure of a remote
\* operation ends the run with an unhandled error.
C4_RemoteFailureNeverUnhandled ==
    pc # "crashed"

\* C8: no rule set passed to setRules, in merge mode or in overwrite mode,
\* holds a rule whose case-insensitive key is (allow, any, any, any, any, any).
C8_DefaultRuleNeverPushed ==
    \A k \in CallsWhere("setRules") :
        \A r \in DOMAIN calls[k].arg.rules : ~IsDefaultKey(calls[k].arg.rules[r])

\* C9: createGroup is issued only for a row with a non-empty group name that
\* is in the group index neither from the catalog at start nor from an earlier
\* successful createGroup; so at most one createGroup succeeds per name; and
\* the object of such a row is created with groupIds holding exactly the
\* identifier indexed for the name.
C9_GroupResolutionIdempotent ==
    /\ \A k \in CallsWhere("createGroup") :
          /\ has_group_name(csv_objects[calls[k].row])
          /\ calls[k].arg.name = csv_objects[calls[k].row]["_group_name"]
          /\ calls[k].arg.name \notin DOMAIN catalog.groups
          /\ \A j \in CallsWhere("createGroup") :
                (j < k /\ calls[j].arg.name = calls[k].arg.name) => ~calls[j].ok
    /\ \A k \in CallsWhere("createObject") :
          LET row == csv_objects[calls[k].row]
              group_name == row["_group_name"]
          IN  has_group_name(row) =>
                /\ "groupIds" \in DOMAIN calls[k].arg
                /\ group_name \in DOMAIN policy_group_objects_name_to_id
                /\ calls[k].arg["groupIds"] = <<policy_group_objects_name_to_id[group_name]>>
                /\ \/ /\ group_name \in DOMAIN catalog.groups
                      /\ policy_group_objects_name_to_id[group_name] = catalog.groups[group_name]
                   \/ \E j \in CallsWhere("createGroup") :
                         /\ j < k
                         /\ calls[j].ok
                         /\ calls[j].arg.name = group_name
                         /\ calls[j].result = policy_group_objects_name_to_id[group_name]

\* C9 witness: the group was created for the first row and the second row,
\* naming the same group, was created with that identifier and no second
\* createGroup.
C9_Witness ==
    /\ Cardinality(CallsWhere("createGroup")) = 1
    /\ \E j \in CallsWhere("createGroup") : \E k \in CallsWhere("createObject") :
          /\ calls[j].ok
          /\ calls[j].row = 1
          /\ calls[k].row = 2
          /\ calls[k].arg["groupIds"] = <<calls[j].result>>

\* C10: when createGroup fails for a row no createObject is issued for that
\* row, and every row of the table is processed whatever failed before it:
\* each row the loop has passed has its remote call, and the loop ends only
\* after the last row.
C10_GroupFailureSkipsObjectOnly ==
    /\ \A k \in CallsWhere("createGroup") :
          ~calls[k].ok =>
              \A j \in CallsWhere("createObject") : calls[j].row # calls[k].row
    /\ \A r \in DOMAIN csv_objects :
          r < row_i =>
              \E k \in CallsWhere("createGroup") \cup CallsWhere("createObject") :
                  calls[k].row = r
    /\ row_i <= Len(csv_objects) + 1
    /\ pc \in {"translate", "get_networks", "ask", "step2", "returned", "crashed"} =>
          row_i = Len(csv_objects) + 1

\* C10 witness: createGroup failed for the first row and the second row's
\* object was still created.
C10_Witness ==
    /\ pc = "returned"
    /\ \E k \in CallsWhere("createGroup") : calls[k].row = 1 /\ ~calls[k].ok
    /\ \E k \in CallsWhere("createObject") : calls[k].row = 2 /\ calls[k].ok

\* the calls with operation op issued for the network at position n
NetworkCalls(op, n) == {k \in CallsWhere(op) : calls[k].row = n}

ListedNetworks == IF response[1] = "None" THEN response[2] ELSE <<>>

\* C11: for every network of the list returned by listNetworks, whatever
\* getRules or setRules failed on earlier networks, the driver attempts that
\* network (getRules in merge mode, setRules in overwrite mode): each network
\* the loop has passed has its call, the loop can always take its next step,
\* and the run ends only after the last network.
C11_EveryListedNetworkAttempted ==
    response[1] = "None" =>
        /\ pc # "crashed"
        /\ pc \in {"step2", "returned"} =>
              /\ net_i <= Len(response[2]) + 1
              /\ \A n \in DOMAIN response[2] :
                    n < net_i =>
                        NetworkCalls(IF overwrite THEN "setRules" ELSE "getRules", n) # {}
        /\ (pc = "step2" /\ net_i <= Len(response[2])) => ENABLED ProcessNetwork
        /\ pc = "returned" => net_i = Len(response[2]) + 1

\* C11 witness: getRules failed on the first network, the second network was
\* fetched and pushed, and main() returned.
C11_Witness ==
    /\ pc = "returned"
    /\ ~overwrite
    /\ \E k \in NetworkCalls("getRules", 1) : ~calls[k].ok
    /\ NetworkCalls("getRules", 2) # {}
    /\ NetworkCalls("setRules", 2) # {}

\* C12: the field set passed to createObject never holds the reserved
\* group-membership column, also for a row whose reserved column is empty.
C12_ReservedColumnNeverForwarded ==
    \A k \in CallsWhere("createObject") : "_group_name" \notin DOMAIN calls[k].arg

\* C13: in overwrite mode no getRules is ever issued and every setRules call
\* carries exactly the translated rule table, the same for every network
\* whatever failed on the others; the mode of the prompt holds for every
\* network: in overwrite mode each network passed has one setRules and no
\* getRules, in merge mode each network passed has its getRules.
C13_OverwritePushesTableUnfetched ==
    /\ overwrite =>
          /\ CallsWhere("getRules") = {}
          /\ \A k \in CallsWhere("setRules") :
                /\ calls[k].arg.rules = l3_rules_translated
                /\ calls[k].arg.networkId = response[2][calls[k].row].id
          /\ \A n \in DOMAIN ListedNetworks :
                n < net_i => Cardinality(NetworkCalls("setRules", n)) = 1
    /\ (~overwrite /\ pc \in {"step2", "returned"}) =>
          \A n \in DOMAIN ListedNetworks :
              n < net_i => Cardinality(NetworkCalls("getRules", n)) = 1

\* C13 witness: overwrite mode, a non-empty table, two networks, the first
\* setRules failed and the second was issued.
C13_Witness ==
    /\ pc = "returned"
    /\ overwrite
    /\ l3_rules_translated # <<>>
    /\ \E k \in NetworkCalls("setRules", 1) : ~calls[k].ok
    /\ \E k \in NetworkCalls("setRules", 2) : calls[k].ok

\* C14: merge(existing, []) is existing with every default-allow-any rule
\* removed and the order of the remaining rules preserved.
C14_MergeWithEmptyIncoming ==
    (Returned /\ new_rules = <<>>) =>
        combined_list = SelectSeq(existing_rules, LAMBDA r : ~IsDefaultKey(r))

\* C14 witness: incoming is empty, existing holds a default rule followed by
\* another rule, and the merge returned.
C14_Witness ==
    /\ Returned
    /\ new_rules = <<>>
    /\ Len(existing_rules) = 2
    /\ IsDefaultKey(existing_rules[1])
    /\ ~IsDefaultKey(existing_rules[2])
    /\ combined_list = <<existing_rules[2]>>

\* The successful calls with operation op that created the entity named name.
Created(op, name) == {k \in CallsWhere(op) : calls[k].ok /\ calls[k].arg["name"] = name}

\* The identifier of the entity named name: of the last successful creation
\* in the run, else of the catalog at start; <<>> when there is none.
EntityId(op, at_start, name) ==
    IF Created(op, name) # {}
    THEN calls[CHOOSE k \in Created(op, name) : \A j \in Created(op, name) : j <= k].result
    ELSE IF name \in DOMAIN at_start THEN at_start[name] ELSE <<>>

\* The reference token of an address field, objects before groups.
TokenOf(c) ==
    IF EntityId("createObject", catalog.objects, c) # <<>>
    THEN <<79, 66, 74, 40>> \o EntityId("createObject", catalog.objects, c) \o <<41>>
    ELSE IF EntityId("createGroup", catalog.groups, c) # <<>>
    THEN <<71, 82, 80, 40>> \o EntityId("createGroup", catalog.groups, c) \o <<41>>
    ELSE c

IsCreation(call) == call.op \in {"createObject", "createGroup"}
IsNetworkCall(call) == call.op \in {"listNetworks", "getRules", "setRules"}

\* C15: the srcCidr and destCidr of every rule are translated after every
\* creation attempt of the run and before the first getRules or setRules, so
\* the translated table holds, for every entity created or catalogued, its
\* reference token, and every setRules carries each rule of the table with
\* these tokens.
C15_TranslationAfterCreationBeforePush ==
    /\ \A j, k \in DOMAIN calls :
          (IsCreation(calls[j]) /\ IsNetworkCall(calls[k])) => j < k
    /\ (\E k \in DOMAIN calls : IsNetworkCall(calls[k])) =>
          pc \in {"ask", "step2", "returned", "crashed"}
    /\ pc \in {"get_networks", "ask", "step2", "returned", "crashed"} =>
          /\ Len(l3_rules_translated) = Len(csv_rules)
          /\ \A r \in DOMAIN csv_rules :
                l3_rules_translated[r] =
                    [csv_rules[r] EXCEPT !.srcCidr = TokenOf(csv_rules[r].srcCidr),
                                         !.destCidr = TokenOf(csv_rules[r].destCidr)]
    /\ \A k \in CallsWhere("setRules") :
          \A t \in DOMAIN l3_rules_translated :
              \E r \in DOMAIN calls[k].arg.rules :
                  SameRule(calls[k].arg.rules[r], l3_rules_translated[t])

\* C15 witness: the object and the group a rule names were both created in
\* this run and a rule set holding the rule with both tokens was pushed.
C15_Witness ==
    /\ catalog.groups = EmptyDict
    /\ \E o \in CallsWhere("createObject") : \E g \in CallsWhere("createGroup") :
       \E k \in CallsWhere("setRules") : \E r \in DOMAIN calls[k].arg.rules :
          /\ calls[o].ok /\ calls[g].ok
          /\ calls[o].arg["name"] = s_web
          /\ calls[g].arg["name"] = s_grp
          /\ Cardinality(Created("createObject", s_web)) = 1
          /\ calls[k].arg.rules[r].srcCidr = s_OBJ_open \o calls[o].result \o s_close
          /\ calls[k].arg.rules[r].destCidr = s_GRP_open \o calls[g].result \o s_close

\* The mapping that holds the catalog at start and, for every name created
\* successfully in the run, the identifier the last such creation returned.
IndexOf(op, at_start) ==
    [n \in DOMAIN at_start \cup {calls[k].arg["name"] : k \in {c \in CallsWhere(op) : calls[c].ok}}
        |-> EntityId(op, at_start, n)]

\* C16: after a successful createObject or createGroup for name n returning
\* i the lookup of n returns i, a failed creation leaves both mappings as they
\* were, and no entry is ever removed: each mapping is the catalog at start
\* plus the successful creations of the run, and nothing else.
C16_IndexIsCatalogPlusCreations ==
    pc # "idle" =>
        /\ policy_objects_name_to_id = IndexOf("createObject", catalog.objects)
        /\ policy_group_objects_name_to_id = IndexOf("createGroup", catalog.groups)
        /\ DOMAIN catalog.objects \subseteq DOMAIN policy_objects_name_to_id
        /\ DOMAIN catalog.groups \subseteq DOMAIN policy_group_objects_name_to_id

\* C16 witness: a catalog entry is still present after one creation of the
\* run succeeded (and is looked up with its identifier) and another failed.
C16_Witness ==
    /\ s_db \in DOMAIN catalog.objects
    /\ policy_objects_name_to_id[s_db] = s_id100
    /\ \E k \in CallsWhere("createObject") :
          /\ calls[k].ok
          /\ calls[k].arg["name"] = s_web
          /\ calls[k].row = 1
          /\ s_web \in DOMAIN policy_objects_name_to_id
          /\ policy_objects_name_to_id[s_web] = calls[k].result
    /\ \E k \in CallsWhere("createObject") : ~calls[k].ok /\ calls[k].row = 2

\* C17: merging the same incoming rules again changes nothing:
\* merge(merge(existing, incoming), incoming) = merge(existing, incoming),
\* same rules in the same order.
C17_RemergeIsNoOp ==
    Returned => combine_lists(combined_list, new_rules) = combined_list

\* The rule table the loop over the networks holds: the rule set of the last
\* setRules call, or the translated table before the first one.
TableAfterPushes ==
    IF CallsWhere("setRules") = {}
    THEN l3_rules_translated
    ELSE calls[CHOOSE k \in CallsWhere("setRules") :
                   \A j \in CallsWhere("setRules") : j <= k].arg.rules

\* C18: in merge mode, when getRules fails for a network no setRules is
\* issued for that network, and the failed step leaves the rule table used
\* for the following networks as it was.
C18_FailedFetchPushesNothing ==
    /\ \A g \in CallsWhere("getRules") :
          ~calls[g].ok => NetworkCalls("setRules", calls[g].row) = {}
    /\ pc \in {"get_networks", "ask", "step2", "returned", "crashed"} =>
          l3_rules = TableAfterPushes

\* C18 witness: merge mode, the first network was fetched and pushed, getRules
\* failed on the second, and main() returned with the table of the first push.
C18_Witness ==
    /\ pc = "returned"
    /\ ~overwrite
    /\ \E k \in NetworkCalls("setRules", 1) : l3_rules = calls[k].arg.rules
    /\ l3_rules # l3_rules_translated
    /\ \E g \in NetworkCalls("getRules", 2) : ~calls[g].ok
    /\ NetworkCalls("setRules", 2) = {}

\* The identifiers of kind op that exist before call k: those of the catalog
\* at start and those returned by earlier successful creations.
KnownIds(op, at_start, k) ==
    {at_start[n] : n \in DOMAIN at_start}
        \cup {calls[j].result : j \in {c \in CallsWhere(op) : c < k /\ calls[c].ok}}

IsToken(open, c) == Len(c) > 5 /\ SubSeq(c, 1, 4) = open /\ c[Len(c)] = 41

TokenId(c) == SubSeq(c, 5, Len(c) - 1)

\* C19: every identifier the run places in a remote request, in an OBJ(..) or
\* GRP(..) token of a pushed rule or in the groupIds of a created object, is
\* an identifier of the catalog at start or one returned by an earlier
\* successful createObject / createGroup; a failed creation contributes none.
C19_NoDanglingReference ==
    /\ \A k \in CallsWhere("createObject") :
          "groupIds" \in DOMAIN calls[k].arg =>
              \A g \in DOMAIN calls[k].arg["groupIds"] :
                  calls[k].arg["groupIds"][g] \in KnownIds("createGroup", catalog.groups, k)
    /\ \A k \in CallsWhere("setRules") :
          \A r \in DOMAIN calls[k].arg.rules :
              \A c \in {calls[k].arg.rules[r].srcCidr, calls[k].arg.rules[r].destCidr} :
                  /\ IsToken(<<79, 66, 74, 40>>, c) =>
                        TokenId(c) \in KnownIds("createObject", catalog.objects, k)
                  /\ IsToken(<<71, 82, 80, 40>>, c) =>
                        TokenId(c) \in KnownIds("createGroup", catalog.groups, k)

\* C19 witness: a group creation failed for the first row and succeeded for
\* the second, the object of the second row carries the new group, and a rule
\* with an object token and a group token was pushed.
C19_Witness ==
    /\ \E g \in CallsWhere("createGroup") : calls[g].row = 1 /\ ~calls[g].ok
    /\ \E g \in CallsWhere("createGroup") : \E o \in CallsWhere("createObject") :
          /\ calls[g].row = 2 /\ calls[g].ok
          /\ calls[o].row = 2 /\ calls[o].arg["groupIds"] = <<calls[g].result>>
    /\ \E k \in CallsWhere("setRules") : \E r \in DOMAIN calls[k].arg.rules :
          /\ IsToken(s_OBJ_open, calls[k].arg.rules[r].srcCidr)
          /\ IsToken(s_GRP_open, calls[k].arg.rules[r].destCidr)

====
